---- MODULE Spec2Model ----
(***************************************************************************)
(* The resumable audio -> transcript -> study-notes pipeline.              *)
(*                                                                         *)
(* State: the rows of the notes table, the audio files on disk, the Celery *)
(* task chains in the broker, and the API request in flight.  One step of  *)
(* the model is the code between two db.commit() calls of a handler or of  *)
(* a task attempt.                                                         *)
(***************************************************************************)
EXTENDS Integers, Sequences, FiniteSets, TLC

\* ------------------------------------------------------------------ bounds
\* What the outside world does to the system in one run: API requests,
\* provider calls that fail, audio files removed from disk, and a submission
\* that falls in the same second as the one before it.
MaxEvents == 4
MaxNotes == 3       \* rows ever created

\* ------------------------------------------------------- program constants
max_retries == 2    \* @celery.task(max_retries=2) on each of the three tasks

\* ------------------------------------------------------------ value spaces
Videos == <<"u1", "u2">>
NULL == "<null>"                 \* None in a string column
NoNote == <<>>                   \* None in the note column
NoId == 0                        \* None in audio_id / audio_path / task_id

\* What the providers can answer.
Transcripts == {"t1"}            \* the segments, one canonical line each
DownloadCauses == {"yt_dlp error"}
TranscribeCauses == {"whisper error"}
GenerateCauses == {"Empty response from Gemini API", "Content generation blocked"}

\* error column: None, or the text a handler wrote.
NoError == [kind |-> NULL, attempts |-> 0, cause |-> NULL]
Message(text) == [kind |-> "message", attempts |-> 0, cause |-> text]

\* f"<Stage> failed after {retry_count + 1} attempts: {str(e)}"
FailedAfter(stage, retry_count, cause) ==
    [kind |-> stage, attempts |-> retry_count + 1, cause |-> cause]

\* str(uuid.uuid4()): an id no other attempt has. Only the one successful
\* attempt of a chain stores its id, so the chain's number names it.
NewAudioId(c) == c

\* media/<audio_id>.mp3
AudioPath(audio_id) == audio_id

\* response.text: non-empty, and the provider's own wording for that call
ResponseText(c) == c

\* add_youtube_timestamps(response.text, youtube_link): the text with its
\* markers rewritten into links on that video.
StudyNotes(text, youtube_link) == <<text, youtube_link>>

VARIABLES
    notes,      \* the notes table: row id -> row
    now,        \* the database clock behind created_at (seconds)
    files,      \* audio paths that exist on disk
    tasks,      \* chain id -> chain (the task of the chain that is queued/running)
    req,        \* the API request in flight
    events,     \* requests, provider failures and lost files so far
    call        \* a text function applied to an input, and what it returned

vars == <<notes, now, files, tasks, req, events, call>>

\* ---------------------------------------------------------------- rows
NoteIds == 1..Len(notes)

NewNote(url, created) ==
    [youtube_url |-> url, task_id |-> NoId, status |-> "pending",
     audio_id |-> NoId, audio_path |-> NoId, error |-> NoError,
     transcription |-> NULL, note |-> NoNote, created_at |-> created]

\* Path(p).exists()
FileExists(path) == path \in files

\* ------------------------------------------------ requests and chains
Idle == [op |-> "idle", id |-> 0, existing |-> 0, todo |-> <<>>, count |-> 0,
         pc |-> "none", result |-> "none"]

\* the handler is at its return statement
Response(op, id, result) ==
    [Idle EXCEPT !.op = op, !.id = id, !.pc = "return", !.result = result]

\* n more requests, provider failures, lost files, same-second submissions
Events(n) == events + n <= MaxEvents /\ events' = events + n
Event == Events(1)

NoPayload == [audio_id |-> NoId, audio_path |-> NoId, transcription |-> NULL,
              error |-> NULL]

\* chain(download_audio.s(url, id), translate_audio_to_text.s(), generate_study_notes.s())
FullStages == <<"download_audio", "translate_audio_to_text", "generate_study_notes">>

NewChain(note_id, stages, payload) ==
    [note_id |-> note_id, stages |-> stages, pc |-> "start", retries |-> 0,
     calls |-> 0, payload |-> payload, outcome |-> "active"]

create_audio_transcription_chain(note_id) == NewChain(note_id, FullStages, NoPayload)

Active(c) == tasks[c].outcome = "active"
Stage(c) == Head(tasks[c].stages)

\* the task returned: its result is the first argument of the next task of the
\* chain, or the chain is over (retries then stays what the last task's
\* request.retries was)
Returned(ch, payload) ==
    IF Len(ch.stages) > 1
    THEN [ch EXCEPT !.stages = Tail(@), !.pc = "start", !.retries = 0,
                    !.calls = 0, !.payload = payload]
    ELSE [ch EXCEPT !.stages = <<>>, !.pc = "start",
                    !.calls = 0, !.payload = NoPayload, !.outcome = "done"]

\* (the retry budget one short: max_retries=1)
FinalAttemptEarly(ch) == ch.retries >= max_retries - 1

\* autoretry_for=(Exception,), max_retries: the attempt raised
FinalAttempt(ch) == ch.retries >= max_retries

Raised(ch) ==
    IF FinalAttempt(ch)
    THEN [ch EXCEPT !.stages = <<>>, !.pc = "start", !.payload = NoPayload,
                    !.outcome = "failed"]
    ELSE [ch EXCEPT !.pc = "start", !.retries = @ + 1]

\* ============================================================ the API
\* POST /notes/youtube ------------------------------------------------------
\* filter(youtube_url == url, status == "completed", note.isnot(None))
\* (the query without its filter on the URL)
CacheCandidatesAnyUrl(url) ==
    {i \in NoteIds : /\ notes[i].status = "completed"
                     /\ notes[i].note # NoNote}

CacheCandidates(url) ==
    {i \in NoteIds : /\ notes[i].youtube_url = url
                     /\ notes[i].status = "completed"
                     /\ notes[i].note # NoNote}

\* .order_by(Note.created_at.desc()).first(): a row of the set with the latest
\* created_at (rows created in the same second tie), 0 for None
FirstByCreatedDesc(S) ==
    IF S = {} THEN {0}
    ELSE {i \in S : \A j \in S : notes[j].created_at <= notes[i].created_at}

\* CURRENT_TIMESTAMP at the insert: a later second than the row before, or
\* the same second
SecondsNow == IF notes = <<>> THEN {now + 1} ELSE {now, now + 1}

\* the query, then the new row committed as pending (lines 42-57);
\* created_at is server_default=func.now(), which counts in seconds
CreateNote(url) ==
    /\ req = Idle
    /\ Len(notes) < MaxNotes
    /\ \E existing \in FirstByCreatedDesc(CacheCandidates(url)),
          created \in SecondsNow :
          /\ Events(IF created = now THEN 2 ELSE 1)
          /\ notes' = Append(notes, NewNote(url, created))
          /\ now' = created
          /\ req' = [Idle EXCEPT !.op = "create", !.id = Len(notes) + 1,
                                 !.existing = existing, !.pc = "created"]
    /\ UNCHANGED <<files, tasks, call>>

\* the fields copied from the cached row (lines 61-65)
CloneCached(new, cached) ==
    [new EXCEPT !.transcription = cached.transcription,
                !.note = cached.note,
                !.status = "completed",
                !.audio_path = cached.audio_path,
                !.audio_id = cached.audio_id]

CacheHit == req.existing # 0 /\ notes[req.existing].note # NoNote

\* lines 60-72
CreateFromCache ==
    /\ req.op = "create"
    /\ req.pc = "created"
    /\ CacheHit
    /\ notes' = [notes EXCEPT ![req.id] = CloneCached(@, notes[req.existing])]
    /\ req' = Response("create", req.id, "completed")
    /\ UNCHANGED <<now, files, tasks, events, call>>

\* lines 74-82
CreateEnqueue ==
    /\ req.op = "create"
    /\ req.pc = "created"
    /\ ~CacheHit
    /\ tasks' = Append(tasks, create_audio_transcription_chain(req.id))
    /\ notes' = [notes EXCEPT ![req.id].task_id = Len(tasks) + 1]
    /\ req' = Response("create", req.id, "pending")
    /\ UNCHANGED <<now, files, events, call>>

\* POST /notes/{id}/retry ---------------------------------------------------
audio_exists(n) == n.audio_path # NoId /\ FileExists(n.audio_path)
transcription_exists(n) == n.transcription # NULL
AlreadyCompleted(n) == n.status = "completed" /\ n.note # NoNote

\* (the elif audio_exists branch left out)
EntryStageNoTranscribe(n) ==
    IF AlreadyCompleted(n) THEN "none"
    ELSE IF audio_exists(n) /\ transcription_exists(n) THEN "generate_study_notes"
    ELSE "download_audio"

\* the branch retry_note takes on row n (lines 147-199)
EntryStage(n) ==
    IF AlreadyCompleted(n) THEN "none"
    ELSE IF audio_exists(n) /\ transcription_exists(n) THEN "generate_study_notes"
    ELSE IF audio_exists(n) THEN "translate_audio_to_text"
    ELSE "download_audio"

\* (the last branch without its reset of the audio fields)
RetryResetKeepsAudio(n, entry) ==
    [n EXCEPT !.status = IF entry = "download_audio" THEN "pending" ELSE "processing",
              !.error = NoError]

\* (the reset of the last branch copied into the other two)
RetryResetClearsAudio(n, entry) ==
    [n EXCEPT !.status = IF entry = "download_audio" THEN "pending" ELSE "processing",
              !.error = NoError, !.audio_path = NoId, !.audio_id = NoId]

\* what each branch writes before it enqueues (lines 164-166, 184-186, 202-206)
RetryReset(n, entry) ==
    IF entry = "download_audio"
    THEN [n EXCEPT !.status = "pending", !.error = NoError,
                   !.audio_path = NoId, !.audio_id = NoId]
    ELSE [n EXCEPT !.status = "processing", !.error = NoError]

\* (the first branch enqueueing the chain of the second)
RetryChainFromTranscribe(id, n, entry) ==
    IF entry \in {"generate_study_notes", "translate_audio_to_text"}
    THEN NewChain(id, <<"translate_audio_to_text", "generate_study_notes">>,
                  [NoPayload EXCEPT !.audio_id = n.audio_id,
                                    !.audio_path = n.audio_path])
    ELSE NewChain(id, <<"download_audio", "translate_audio_to_text",
                        "generate_study_notes">>, NoPayload)

\* what each branch enqueues (lines 157-161 and 169, 176-181 and 191-194, 209-210)
RetryChain(id, n, entry) ==
    IF entry = "generate_study_notes"
    THEN NewChain(id, <<"generate_study_notes">>,
                  [NoPayload EXCEPT !.transcription = n.transcription])
    ELSE IF entry = "translate_audio_to_text"
    THEN NewChain(id, <<"translate_audio_to_text", "generate_study_notes">>,
                  [NoPayload EXCEPT !.audio_id = n.audio_id,
                                    !.audio_path = n.audio_path])
    ELSE create_audio_transcription_chain(id)

\* (the 404 test left out: the full chain is enqueued for the unknown id)
RetryNotFoundEnqueues(id) ==
    /\ req = Idle
    /\ Event
    /\ id \notin NoteIds
    /\ tasks' = Append(tasks, create_audio_transcription_chain(id))
    /\ req' = Response("retry", id, "pending")
    /\ UNCHANGED <<notes, now, files, call>>

\* lines 143-145
RetryNotFound(id) ==
    /\ req = Idle
    /\ Event
    /\ id \notin NoteIds
    /\ req' = Response("retry", id, "404")
    /\ UNCHANGED <<notes, now, files, tasks, call>>

\* lines 147-149
RetryCompleted(id) ==
    /\ req = Idle
    /\ Event
    /\ id \in NoteIds
    /\ AlreadyCompleted(notes[id])
    /\ req' = Response("retry", id, "completed")
    /\ UNCHANGED <<notes, now, files, tasks, call>>

\* lines 151-215
RetryResume(id) ==
    /\ req = Idle
    /\ Event
    /\ id \in NoteIds
    /\ ~AlreadyCompleted(notes[id])
    /\ LET entry == EntryStage(notes[id]) IN
       /\ tasks' = Append(tasks, RetryChain(id, notes[id], entry))
       /\ notes' = [notes EXCEPT
                      ![id] = [RetryReset(@, entry) EXCEPT !.task_id = Len(tasks) + 1]]
    /\ req' = Response("retry", id, "pending")
    /\ UNCHANGED <<now, files, call>>

retry_note(id) ==
    \/ RetryNotFound(id)
    \/ RetryCompleted(id)
    \/ RetryResume(id)

\* the generate_study_notes task both regenerate handlers enqueue
\* (lines 238-244, 279-285)
RegenerateChain(id) ==
    NewChain(id, <<"generate_study_notes">>,
             [NoPayload EXCEPT !.transcription = notes[id].transcription])

\* note.status = "failed"; note.error = None; db.commit()  (lines 234-236, 275-277)
MarkForRegeneration(n) == [n EXCEPT !.status = "failed", !.error = NoError]

\* task_id and status = "processing" committed after .delay()
\* (lines 245-247, 286-288)
MarkEnqueued(n, task_id) == [n EXCEPT !.task_id = task_id, !.status = "processing"]

\* POST /notes/{id}/regenerate-note ----------------------------------------
\* lines 261-263
RegenerateNotFound(id) ==
    /\ req = Idle
    /\ Event
    /\ id \notin NoteIds
    /\ req' = Response("regenerate", id, "404")
    /\ UNCHANGED <<notes, now, files, tasks, call>>

\* lines 265-269: not note.transcription
RegenerateNoTranscription(id) ==
    /\ req = Idle
    /\ Event
    /\ id \in NoteIds
    /\ notes[id].transcription \in {NULL, ""}
    /\ req' = Response("regenerate", id, "400")
    /\ UNCHANGED <<notes, now, files, tasks, call>>

\* lines 271-273
RegenerateCompleted(id) ==
    /\ req = Idle
    /\ Event
    /\ id \in NoteIds
    /\ notes[id].transcription \notin {NULL, ""}
    /\ notes[id].note # NoNote
    /\ req' = Response("regenerate", id, "completed")
    /\ UNCHANGED <<notes, now, files, tasks, call>>

\* lines 275-277
RegenerateMark(id) ==
    /\ req = Idle
    /\ Event
    /\ id \in NoteIds
    /\ notes[id].transcription \notin {NULL, ""}
    /\ notes[id].note = NoNote
    /\ notes' = [notes EXCEPT ![id] = MarkForRegeneration(@)]
    /\ req' = [Idle EXCEPT !.op = "regenerate", !.id = id, !.pc = "enqueue"]
    /\ UNCHANGED <<now, files, tasks, call>>

regenerate_note(id) ==
    \/ RegenerateNotFound(id)
    \/ RegenerateNoTranscription(id)
    \/ RegenerateCompleted(id)
    \/ RegenerateMark(id)

\* lines 279-285: the task is in the broker before the handler's last commit
RegenerateEnqueue ==
    /\ req.op = "regenerate"
    /\ req.pc = "enqueue"
    /\ tasks' = Append(tasks, RegenerateChain(req.id))
    /\ req' = [req EXCEPT !.pc = "commit"]
    /\ UNCHANGED <<notes, now, files, events, call>>

\* lines 286-290
RegenerateCommit ==
    /\ req.op = "regenerate"
    /\ req.pc = "commit"
    /\ notes' = [notes EXCEPT ![req.id] = MarkEnqueued(@, Len(tasks))]
    /\ req' = Response("regenerate", req.id, "pending")
    /\ UNCHANGED <<now, files, tasks, events, call>>

\* POST /notes/regenerate-all ----------------------------------------------
\* (the filter without its test on note)
NotesWithTranscription == {i \in NoteIds : notes[i].transcription # NULL}

\* filter(transcription.isnot(None), note.is_(None)).all()
NotesToRegenerate ==
    {i \in NoteIds : notes[i].transcription # NULL /\ notes[i].note = NoNote}

RECURSIVE InIdOrder(_)
InIdOrder(S) ==
    IF S = {} THEN <<>>
    ELSE LET m == CHOOSE i \in S : \A j \in S : i <= j
         IN <<m>> \o InIdOrder(S \ {m})

\* lines 226-232
regenerate_all_notes ==
    /\ req = Idle
    /\ Event
    /\ req' = [Idle EXCEPT !.op = "regenerate_all",
                           !.todo = InIdOrder(NotesToRegenerate), !.pc = "mark"]
    /\ UNCHANGED <<notes, now, files, tasks, call>>

\* lines 234-236
RegenerateAllMark ==
    /\ req.op = "regenerate_all"
    /\ req.pc = "mark"
    /\ req.todo # <<>>
    /\ notes' = [notes EXCEPT ![Head(req.todo)] = MarkForRegeneration(@)]
    /\ req' = [req EXCEPT !.pc = "enqueue"]
    /\ UNCHANGED <<now, files, tasks, events, call>>

\* lines 238-244
RegenerateAllEnqueue ==
    /\ req.op = "regenerate_all"
    /\ req.pc = "enqueue"
    /\ tasks' = Append(tasks, RegenerateChain(Head(req.todo)))
    /\ req' = [req EXCEPT !.pc = "commit"]
    /\ UNCHANGED <<notes, now, files, events, call>>

\* lines 245-248
RegenerateAllCommit ==
    /\ req.op = "regenerate_all"
    /\ req.pc = "commit"
    /\ notes' = [notes EXCEPT ![Head(req.todo)] = MarkEnqueued(@, Len(tasks))]
    /\ req' = [req EXCEPT !.pc = "mark", !.todo = Tail(@), !.count = @ + 1]
    /\ UNCHANGED <<now, files, tasks, events, call>>

\* lines 250-253
RegenerateAllReturn ==
    /\ req.op = "regenerate_all"
    /\ req.pc = "mark"
    /\ req.todo = <<>>
    /\ req' = [Response("regenerate_all", 0, "ok") EXCEPT !.count = req.count]
    /\ UNCHANGED <<notes, now, files, tasks, events, call>>

\* ======================================================== the workers
Row(c) == notes[tasks[c].note_id]
Found(c) == tasks[c].note_id \in NoteIds

\* download_audio --------------------------------------------------------
\* lines 21-26: the row is looked up and committed as processing
DownloadStart(c) ==
    /\ Active(c)
    /\ Stage(c) = "download_audio"
    /\ tasks[c].pc = "start"
    /\ IF Found(c)
       THEN /\ notes' = [notes EXCEPT ![tasks[c].note_id].status = "processing"]
            /\ tasks' = [tasks EXCEPT ![c].pc = "call"]
       ELSE /\ tasks' = [tasks EXCEPT ![c] =
                  Returned(@, [NoPayload EXCEPT !.error = "Note not found"])]
            /\ UNCHANGED notes
    /\ UNCHANGED <<now, files, req, events, call>>

\* lines 46-50
DownloadSaved(n, audio_id) ==
    [n EXCEPT !.audio_id = audio_id, !.audio_path = AudioPath(audio_id),
              !.status = "processing"]

\* lines 59-73: what the except clause writes
DownloadFailed(n, ch, cause) ==
    IF ch.retries >= 2
    THEN [n EXCEPT !.status = "failed",
                   !.error = FailedAfter("Download", ch.retries, cause)]
    ELSE n

\* lines 28-57: ydl.download succeeds
DownloadSucceeds(c) ==
    /\ Active(c)
    /\ Stage(c) = "download_audio"
    /\ tasks[c].pc = "call"
    /\ files' = files \cup {AudioPath(NewAudioId(c))}
    /\ notes' = [notes EXCEPT ![tasks[c].note_id] = DownloadSaved(@, NewAudioId(c))]
    /\ tasks' = [tasks EXCEPT ![c] =
          Returned([@ EXCEPT !.calls = @ + 1],
                   [NoPayload EXCEPT !.audio_id = NewAudioId(c),
                                     !.audio_path = AudioPath(NewAudioId(c))])]
    /\ UNCHANGED <<now, req, events, call>>

\* lines 28-44 and 58-75: ydl.download raises
DownloadRaises(c) ==
    /\ Active(c)
    /\ Stage(c) = "download_audio"
    /\ tasks[c].pc = "call"
    /\ Event
    /\ \E cause \in DownloadCauses :
          notes' = [notes EXCEPT ![tasks[c].note_id] =
                       DownloadFailed(@, tasks[c], cause)]
    /\ tasks' = [tasks EXCEPT ![c] = Raised([@ EXCEPT !.calls = @ + 1])]
    /\ UNCHANGED <<now, files, req, call>>

\* translate_audio_to_text -----------------------------------------------
\* line 36: not audio_path or not Path(audio_path).exists()
AudioMissing(payload) == payload.audio_path = NoId \/ ~FileExists(payload.audio_path)

\* audio_data.get("error", "Audio file not found")
AudioError(payload) ==
    IF payload.error # NULL THEN payload.error ELSE "Audio file not found"

\* lines 37-39
TranscribeNoAudio(n) == [n EXCEPT !.status = "failed"]

\* lines 76-78
TranscribeSaved(n, transcription) ==
    [n EXCEPT !.transcription = transcription, !.status = "processing"]

\* (the failure handler also dropping the audio it could not read)
TranscribeFailedDropsAudio(n, ch, cause) ==
    IF ch.retries >= 2
    THEN [n EXCEPT !.status = "failed", !.audio_path = NoId, !.audio_id = NoId,
                   !.error = FailedAfter("Transcription", ch.retries, cause)]
    ELSE n

\* lines 87-99
TranscribeFailed(n, ch, cause) ==
    IF ch.retries >= 2
    THEN [n EXCEPT !.status = "failed",
                   !.error = FailedAfter("Transcription", ch.retries, cause)]
    ELSE n

\* lines 28-45: the row is unknown, or there is no audio to read
TranscribeSkips(c) ==
    /\ Active(c)
    /\ Stage(c) = "translate_audio_to_text"
    /\ ~Found(c) \/ AudioMissing(tasks[c].payload)
    /\ IF Found(c)
       THEN /\ notes' = [notes EXCEPT ![tasks[c].note_id] = TranscribeNoAudio(@)]
            /\ tasks' = [tasks EXCEPT ![c] =
                  Returned(@, [NoPayload EXCEPT
                                  !.audio_id = tasks[c].payload.audio_id,
                                  !.error = AudioError(tasks[c].payload)])]
       ELSE /\ tasks' = [tasks EXCEPT ![c] =
                  Returned(@, [NoPayload EXCEPT !.error = "Note not found"])]
            /\ UNCHANGED notes
    /\ UNCHANGED <<now, files, req, events, call>>

\* lines 47-86: the provider answers
TranscribeSucceeds(c) ==
    /\ Active(c)
    /\ Stage(c) = "translate_audio_to_text"
    /\ Found(c)
    /\ ~AudioMissing(tasks[c].payload)
    /\ \E transcription \in Transcripts :
          /\ notes' = [notes EXCEPT ![tasks[c].note_id] =
                          TranscribeSaved(@, transcription)]
          /\ tasks' = [tasks EXCEPT ![c] =
                Returned([@ EXCEPT !.calls = @ + 1],
                         [tasks[c].payload EXCEPT !.transcription = transcription])]
    /\ UNCHANGED <<now, files, req, events, call>>

\* lines 47-62 and 87-101: the provider call raises
TranscribeRaises(c) ==
    /\ Active(c)
    /\ Stage(c) = "translate_audio_to_text"
    /\ Found(c)
    /\ ~AudioMissing(tasks[c].payload)
    /\ Event
    /\ \E cause \in TranscribeCauses :
          notes' = [notes EXCEPT ![tasks[c].note_id] =
                       TranscribeFailed(@, tasks[c], cause)]
    /\ tasks' = [tasks EXCEPT ![c] = Raised([@ EXCEPT !.calls = @ + 1])]
    /\ UNCHANGED <<now, files, req, call>>

\* generate_study_notes --------------------------------------------------
\* line 49: not transcription
NoTranscription(payload) == payload.transcription \in {NULL, ""}

\* transcription_data.get("error", "Transcription not found")
TranscriptionError(payload) ==
    IF payload.error # NULL THEN payload.error ELSE "Transcription not found"

\* lines 50-53
GenerateNoTranscription(n, payload) ==
    [n EXCEPT !.status = "failed", !.error = Message(TranscriptionError(payload))]

\* lines 207-213: youtube_link travels with the payload and is the row's URL
GenerateSaved(n, text) ==
    [n EXCEPT !.note = StudyNotes(text, n.youtube_url), !.status = "completed"]

\* (the final-attempt test left out: every failure is written)
GenerateFailedAlways(n, ch, cause) ==
    [n EXCEPT !.status = "failed",
              !.error = FailedAfter("Study notes generation", ch.retries, cause)]

\* lines 221-236
GenerateFailed(n, ch, cause) ==
    IF ch.retries >= 2
    THEN [n EXCEPT !.status = "failed",
                   !.error = FailedAfter("Study notes generation", ch.retries, cause)]
    ELSE n

\* lines 40-54: the row is unknown, or there is no transcription
GenerateSkips(c) ==
    /\ Active(c)
    /\ Stage(c) = "generate_study_notes"
    /\ ~Found(c) \/ NoTranscription(tasks[c].payload)
    /\ notes' = IF Found(c)
                THEN [notes EXCEPT ![tasks[c].note_id] =
                         GenerateNoTranscription(@, tasks[c].payload)]
                ELSE notes
    /\ tasks' = [tasks EXCEPT ![c] = Returned(@, NoPayload)]
    /\ UNCHANGED <<now, files, req, events, call>>

\* lines 56-219: the provider answers with text
GenerateSucceeds(c) ==
    /\ Active(c)
    /\ Stage(c) = "generate_study_notes"
    /\ Found(c)
    /\ ~NoTranscription(tasks[c].payload)
    /\ notes' = [notes EXCEPT ![tasks[c].note_id] = GenerateSaved(@, ResponseText(c))]
    /\ tasks' = [tasks EXCEPT ![c] = Returned([@ EXCEPT !.calls = @ + 1], NoPayload)]
    /\ UNCHANGED <<now, files, req, events, call>>

\* lines 153-177 and 221-239: the provider raises, answers nothing or blocks
GenerateRaises(c) ==
    /\ Active(c)
    /\ Stage(c) = "generate_study_notes"
    /\ Found(c)
    /\ ~NoTranscription(tasks[c].payload)
    /\ Event
    /\ \E cause \in GenerateCauses :
          notes' = [notes EXCEPT ![tasks[c].note_id] =
                       GenerateFailed(@, tasks[c], cause)]
    /\ tasks' = [tasks EXCEPT ![c] = Raised([@ EXCEPT !.calls = @ + 1])]
    /\ UNCHANGED <<now, files, req, call>>

\* ===================================================== text functions
NoCall == [fn |-> "none", arg |-> <<>>, done |-> FALSE, out |-> <<>>]

\* the digits a timestamp marker is written with
MaxDigit == 4
Digits == 0..MaxDigit
DigitStrings(n) == [1..n -> Digits]

\* the source a link points at; "" stands for no youtube_link
Sources == {"https://x/y", ""}

RECURSIVE DigitsText(_)
DigitsText(ds) ==
    IF ds = <<>> THEN "" ELSE ToString(Head(ds)) \o DigitsText(Tail(ds))

\* int(match.group(k))
RECURSIVE IntOf(_)
IntOf(ds) ==
    IF ds = <<>> THEN 0 ELSE IntOf(SubSeq(ds, 1, Len(ds) - 1)) * 10 + ds[Len(ds)]

\* f"{n:02d}"
Pad2(n) == IF n < 10 THEN "0" \o ToString(n) ELSE ToString(n)

\* a marker as written: [g1:g2] or [g1:g2:g3]
MarkerText(m) ==
    "[" \o DigitsText(m.g1) \o ":" \o DigitsText(m.g2)
        \o (IF m.g3 = <<>> THEN "" ELSE ":" \o DigitsText(m.g3)) \o "]"

\* (the pattern with one or two digits after the first colon)
MatchesTimestampLoose(m) ==
    Len(m.g1) \in 1..2 /\ Len(m.g2) \in 1..2 /\ Len(m.g3) \in {0, 2}

\* timestamp_pattern = r"\[(\d{1,2}):(\d{2})(?::(\d{2}))?\]"
MatchesTimestamp(m) ==
    Len(m.g1) \in 1..2 /\ Len(m.g2) = 2 /\ Len(m.g3) \in {0, 2}

\* (the hours counted as minutes)
TotalSecondsAsMinutes(hours, minutes, seconds) == hours * 60 + minutes * 60 + seconds

\* total_seconds = hours * 3600 + minutes * 60 + seconds
TotalSeconds(hours, minutes, seconds) == hours * 3600 + minutes * 60 + seconds

\* replace_timestamp(match), lines 186-202
replace_timestamp(m, youtube_url) ==
    LET long == m.g3 # <<>>
        hours == IF long THEN IntOf(m.g1) ELSE 0
        minutes == IF long THEN IntOf(m.g2) ELSE IntOf(m.g1)
        seconds == IF long THEN IntOf(m.g3) ELSE IntOf(m.g2)
        total_seconds == TotalSeconds(hours, minutes, seconds)
        display_time ==
            IF long
            THEN ToString(hours) \o ":" \o Pad2(minutes) \o ":" \o Pad2(seconds)
            ELSE ToString(minutes) \o ":" \o Pad2(seconds)
        timestamp_link == youtube_url \o "?t=" \o ToString(total_seconds)
    IN "[" \o display_time \o "](" \o timestamp_link \o ")"

\* re.sub(timestamp_pattern, replace_timestamp, markdown_text) on one marker
add_youtube_timestamps(m, youtube_url) ==
    IF MatchesTimestamp(m) THEN replace_timestamp(m, youtube_url) ELSE MarkerText(m)

\* the markers a response may hold: those of the pattern, and near misses
\* with a single digit after the first colon
Markers ==
    {[g1 |-> a, g2 |-> b, g3 |-> c] :
        a \in DigitStrings(1) \cup DigitStrings(2),
        b \in DigitStrings(1) \cup DigitStrings(2),
        c \in {<<>>} \cup DigitStrings(2)}

RewriteCalls ==
    {[fn |-> "add_youtube_timestamps", arg |-> <<m, url>>, done |-> FALSE, out |-> ""] :
        m \in Markers, url \in Sources}

\* lines 206-208: if youtube_link: study_notes = add_youtube_timestamps(...)
Rewrite ==
    /\ call.fn = "add_youtube_timestamps"
    /\ ~call.done
    /\ call' = [call EXCEPT
                  !.done = TRUE,
                  !.out = IF call.arg[2] # ""
                          THEN add_youtube_timestamps(call.arg[1], call.arg[2])
                          ELSE MarkerText(call.arg[1])]
    /\ UNCHANGED <<notes, now, files, tasks, req, events>>

\* the transcript lines -----------------------------------------------
\* what a segment's text is made of: a letter, a blank, a line break
Chars == {"a", " ", "\n"}

\* segment texts: plain, with the leading blank the transcriber emits, with a
\* trailing blank, and with a line break inside
SegmentTexts ==
    {<<"a">>, <<" ", "a">>, <<"a", " ">>, <<"a", " ", "a">>, <<"a", "\n", "a">>}

\* seg.start and seg.end in thousandths of a second; none of them falls
\* half-way between two hundredths
SegmentTimes == {0, 1230, 1234, 2676}

MaxSegments == 2

Segments ==
    {[start |-> t1, end |-> t2, text |-> x] :
        t1 \in SegmentTimes, t2 \in SegmentTimes, x \in SegmentTexts}

\* f"{t:.2f}": the value in hundredths, rounded to the nearest
Fmt2f(ms) == IF ms % 10 < 5 THEN ms \div 10 ELSE ms \div 10 + 1

\* text.split("\n")
RECURSIVE SplitLines(_)
SplitLines(text) ==
    IF \A k \in 1..Len(text) : text[k] # "\n"
    THEN <<text>>
    ELSE LET k == CHOOSE k \in 1..Len(text) :
                      text[k] = "\n" /\ \A j \in 1..(k - 1) : text[j] # "\n"
         IN <<SubSeq(text, 1, k - 1)>> \o SplitLines(SubSeq(text, k + 1, Len(text)))

\* str.strip()
RECURSIVE Strip(_)
Strip(text) ==
    IF text = <<>> THEN text
    ELSE IF Head(text) \in {" ", "\n"} THEN Strip(Tail(text))
    ELSE IF text[Len(text)] \in {" ", "\n"} THEN Strip(SubSeq(text, 1, Len(text) - 1))
    ELSE text

\* the lines of f"[{seg.start:.2f}s -> {seg.end:.2f}s] {seg.text}" once the
\* transcription is split at its line breaks: the first carries the stamp and
\* what follows "]", the others are bare text
SegmentLines(seg) ==
    LET pieces == SplitLines(seg.text) IN
    [k \in 1..Len(pieces) |->
        IF k = 1
        THEN [stamped |-> TRUE, start |-> Fmt2f(seg.start), end |-> Fmt2f(seg.end),
              rest |-> <<" ">> \o pieces[1]]
        ELSE [stamped |-> FALSE, start |-> 0, end |-> 0, rest |-> pieces[k]]]

\* "\n".join(transcription_lines), seen as the lines split("\n") gives back
RECURSIVE TranscriptLines(_)
TranscriptLines(segments) ==
    IF segments = <<>> THEN <<>>
    ELSE SegmentLines(Head(segments)) \o TranscriptLines(Tail(segments))

\* re.match(r"\[(\d+\.?\d*)s\s*->\s*(\d+\.?\d*)s\]\s*(.+)", line): the stamp,
\* then at least one character
MatchesLine(line) == line.stamped /\ line.rest # <<>>

\* lines 61-67: start and end in hundredths, text stripped
RECURSIVE ParseSegments(_)
ParseSegments(lines) ==
    IF lines = <<>> THEN <<>>
    ELSE (IF MatchesLine(Head(lines))
          THEN <<[start |-> Head(lines).start, end |-> Head(lines).end,
                  text |-> Strip(Head(lines).rest)]>>
          ELSE <<>>) \o ParseSegments(Tail(lines))

ParseCalls ==
    {[fn |-> "parse", arg |-> segs, done |-> FALSE, out |-> <<>>] :
        segs \in UNION {[1..n -> Segments] : n \in 1..MaxSegments}}

\* the transcript written by translate_audio_to_text is parsed by
\* generate_study_notes
ParseTranscript ==
    /\ call.fn = "parse"
    /\ ~call.done
    /\ call' = [call EXCEPT !.done = TRUE,
                            !.out = ParseSegments(TranscriptLines(call.arg))]
    /\ UNCHANGED <<notes, now, files, tasks, req, events>>

\* a transcription as generate_study_notes receives it ------------------
\* the lines of a stored transcription: a stamped line of a segment, a
\* stamp with nothing after it, a line of plain text (the transcript.text
\* written when the provider gives no segments, lines 71-74 of
\* translate_audio_to_text), an empty line
EmptyLine == [stamped |-> FALSE, start |-> 0, end |-> 0, rest |-> <<>>]

StoredLines ==
    {[stamped |-> TRUE, start |-> t, end |-> t + 100, rest |-> <<" ", "a">>] :
        t \in {0, 123}}
    \cup {[stamped |-> TRUE, start |-> 268, end |-> 300, rest |-> <<>>],
          [stamped |-> FALSE, start |-> 0, end |-> 0, rest |-> <<"a">>],
          EmptyLine}

MaxLines == 3

\* "".split("\n") is the one empty line
NotTranscription(lines) == lines = <<EmptyLine>>

\* (the task giving up when no line of the transcription is a segment)
SynthesisNeedsSegments(lines) ==
    IF NotTranscription(lines) \/ ParseSegments(lines) = <<>>
    THEN [outcome |-> "failed", segments |-> <<>>]
    ELSE [outcome |-> "provider called", segments |-> ParseSegments(lines)]

\* lines 49-74 and 153-164: an empty transcription is the failure of lines
\* 49-54; any other is parsed and its segments, however many, are written
\* into the prompt generate_content is called with
Synthesis(lines) ==
    IF NotTranscription(lines)
    THEN [outcome |-> "failed", segments |-> <<>>]
    ELSE [outcome |-> "provider called", segments |-> ParseSegments(lines)]

SynthesisCalls ==
    {[fn |-> "generate_study_notes", arg |-> lines, done |-> FALSE, out |-> <<>>] :
        lines \in UNION {[1..n -> StoredLines] : n \in 1..MaxLines}}

\* generate_study_notes up to its provider call, on a stored transcription
StartSynthesis ==
    /\ call.fn = "generate_study_notes"
    /\ ~call.done
    /\ call' = [call EXCEPT !.done = TRUE, !.out = Synthesis(call.arg)]
    /\ UNCHANGED <<notes, now, files, tasks, req, events>>

\* ==================================================== the environment
\* an audio file is removed from the media directory
LoseFile(path) ==
    /\ path \in files
    /\ Event
    /\ files' = files \ {path}
    /\ UNCHANGED <<notes, now, tasks, req, call>>

Init ==
    /\ notes = <<>>
    /\ now = 0
    /\ files = {}
    /\ tasks = <<>>
    /\ req = Idle
    /\ events = 0
    /\ call = NoCall

\* the handler returns its response
Return ==
    /\ req.pc = "return"
    /\ req' = Idle
    /\ UNCHANGED <<notes, now, files, tasks, events, call>>

\* the ids a client may ask for: the rows, and one id that names none
RequestIds == 1..(Len(notes) + 1)

\* the URLs a client may submit: one already submitted, or a new video (videos
\* are interchangeable, so the new one is the next of the list)
SubmittedUrls == {notes[i].youtube_url : i \in NoteIds}
Urls ==
    {Videos[k] : k \in {k \in 1..Len(Videos) : k <= Cardinality(SubmittedUrls) + 1}}

ApiStep ==
    \/ \E url \in Urls : CreateNote(url)
    \/ CreateFromCache
    \/ CreateEnqueue
    \/ \E id \in RequestIds : retry_note(id)
    \/ \E id \in RequestIds : regenerate_note(id)
    \/ RegenerateEnqueue
    \/ RegenerateCommit
    \/ regenerate_all_notes
    \/ RegenerateAllMark
    \/ RegenerateAllEnqueue
    \/ RegenerateAllCommit
    \/ RegenerateAllReturn
    \/ Return

ChainIds == 1..Len(tasks)

WorkerStep ==
    \/ \E c \in ChainIds : DownloadStart(c)
    \/ \E c \in ChainIds : DownloadSucceeds(c)
    \/ \E c \in ChainIds : DownloadRaises(c)
    \/ \E c \in ChainIds : TranscribeSkips(c)
    \/ \E c \in ChainIds : TranscribeSucceeds(c)
    \/ \E c \in ChainIds : TranscribeRaises(c)
    \/ \E c \in ChainIds : GenerateSkips(c)
    \/ \E c \in ChainIds : GenerateSucceeds(c)
    \/ \E c \in ChainIds : GenerateRaises(c)

Next ==
    \/ ApiStep
    \/ WorkerStep
    \/ \E path \in files : LoseFile(path)

Spec == Init /\ [][Next]_vars

\* ============================================================ claims
\* the tasks of row i that are queued or executing
ActiveTasks(i) == {c \in ChainIds : Active(c) /\ tasks[c].note_id = i}

\* this step is retry_note answering a request for row i
RetryOn(i) == req = Idle /\ req'.op = "retry" /\ req'.id = i

\* this step enqueued exactly one chain, and left the others as they were
EnqueuedOne ==
    /\ Len(tasks') = Len(tasks) + 1
    /\ \A c \in ChainIds : tasks'[c] = tasks[c]

TranscribeStages == <<"translate_audio_to_text", "generate_study_notes">>
SynthesizeStages == <<"generate_study_notes">>

\* the wording of each stage's final-failure message, and what can cause it
FailureKind(stage) ==
    IF stage = "download_audio" THEN "Download"
    ELSE IF stage = "translate_audio_to_text" THEN "Transcription"
    ELSE "Study notes generation"

FailureCauses(stage) ==
    IF stage = "download_audio" THEN DownloadCauses
    ELSE IF stage = "translate_audio_to_text" THEN TranscribeCauses
    ELSE GenerateCauses

\* C1: every row with status completed has its note, its transcription and
\* its audio path, all non-null.
C1_CompletedHasOutputs ==
    \A i \in NoteIds :
        notes[i].status = "completed" =>
            /\ notes[i].note # NoNote
            /\ notes[i].transcription # NULL
            /\ notes[i].audio_path # NoId

\* C2: in every committed state, a row with status failed has a non-null error.
C2_FailedHasError ==
    \A i \in NoteIds : notes[i].status = "failed" => notes[i].error # NoError

\* C3: a row with a note has a transcription, and a row with a transcription
\* has an audio path.
C3_OutputsInOrder ==
    \A i \in NoteIds :
        /\ notes[i].note # NoNote => notes[i].transcription # NULL
        /\ notes[i].transcription # NULL => notes[i].audio_path # NoId

\* C4: at most one stage task per row is queued or executing at any time.
C4_OneActiveTask == \A i \in NoteIds : Cardinality(ActiveTasks(i)) <= 1

\* C5: a task whose provider call fails on every attempt makes exactly 3
\* calls, and the attempt that ends it leaves the row failed with an error
\* that names the stage, the count 3 and the cause of the failure.
C5_RetryExhaustion ==
    [][\A c \in ChainIds :
          (Active(c) /\ tasks'[c].outcome = "failed") =>
              LET i == tasks[c].note_id IN
              /\ tasks[c].calls = 2
              /\ tasks'[c].calls = 3
              /\ notes'[i].status = "failed"
              /\ notes'[i].error.attempts = 3
              /\ notes'[i].error.kind = FailureKind(Stage(c))
              /\ notes'[i].error.cause \in FailureCauses(Stage(c))]_vars

C5_Exhausted ==
    \E c \in ChainIds :
        /\ tasks[c].outcome = "failed"
        /\ tasks[c].calls = 3
        /\ notes[tasks[c].note_id].status = "failed"
        /\ notes[tasks[c].note_id].error.kind = "Study notes generation"
        /\ notes[tasks[c].note_id].error.attempts = 3

\* C6: a retry request on a row whose audio file exists and whose
\* transcription is null enqueues translate_audio_to_text followed by
\* generate_study_notes on that audio, enqueues nothing else, and leaves
\* audio_path and audio_id as they were.
C6_ResumeAtTranscribe ==
    [][\A i \in NoteIds :
          (RetryOn(i) /\ audio_exists(notes[i]) /\ notes[i].transcription = NULL) =>
              /\ EnqueuedOne
              /\ tasks'[Len(tasks')].note_id = i
              /\ tasks'[Len(tasks')].stages = TranscribeStages
              /\ tasks'[Len(tasks')].payload.audio_path = notes[i].audio_path
              /\ notes'[i].audio_path = notes[i].audio_path
              /\ notes'[i].audio_id = notes[i].audio_id
              /\ notes'[i].audio_path # NoId]_vars

C6_ResumedAtTranscribe ==
    /\ req.op = "retry"
    /\ req.pc = "return"
    /\ req.result = "pending"
    /\ tasks[Len(tasks)].note_id = req.id
    /\ tasks[Len(tasks)].stages = TranscribeStages
    /\ notes[req.id].transcription = NULL
    /\ audio_exists(notes[req.id])

\* C7, as claimed: a retry request on any row with a transcription and no note
\* enqueues only generate_study_notes, with the persisted transcription.
C7_ResumeAtSynthesizeAlways ==
    [][\A i \in NoteIds :
          (RetryOn(i) /\ notes[i].transcription # NULL /\ notes[i].note = NoNote) =>
              /\ EnqueuedOne
              /\ tasks'[Len(tasks')].note_id = i
              /\ tasks'[Len(tasks')].stages = SynthesizeStages
              /\ tasks'[Len(tasks')].payload.transcription = notes[i].transcription]_vars

\* C7, amended: a retry request on a row with a transcription, no note and an
\* audio file that exists on disk enqueues only generate_study_notes, with the
\* persisted transcription.
C7_ResumeAtSynthesize ==
    [][\A i \in NoteIds :
          (/\ RetryOn(i)
           /\ notes[i].transcription # NULL
           /\ notes[i].note = NoNote
           /\ audio_exists(notes[i])) =>
              /\ EnqueuedOne
              /\ tasks'[Len(tasks')].note_id = i
              /\ tasks'[Len(tasks')].stages = SynthesizeStages
              /\ tasks'[Len(tasks')].payload.transcription = notes[i].transcription]_vars

C7_ResumedAtSynthesize ==
    /\ req.op = "retry"
    /\ req.pc = "return"
    /\ req.result = "pending"
    /\ tasks[Len(tasks)].note_id = req.id
    /\ tasks[Len(tasks)] =
          NewChain(req.id, SynthesizeStages,
                   [NoPayload EXCEPT !.transcription = notes[req.id].transcription])
    /\ notes[req.id].transcription # NULL
    /\ notes[req.id].note = NoNote

\* C8: a retry request on a row whose note is non-null, whatever its status,
\* reports completed, enqueues nothing and changes no row.
C8_RetryWithNoteIsNoOp ==
    [][\A i \in NoteIds :
          (RetryOn(i) /\ notes[i].note # NoNote) =>
              /\ req'.result = "completed"
              /\ UNCHANGED <<notes, tasks>>]_vars

\* C9: what a retry request writes to the row does not change the entry stage:
\* a second retry request right after it selects the same stage.
C9_EntryStageIdempotent ==
    [][\A i \in NoteIds :
          RetryOn(i) => EntryStage(notes[i])' = EntryStage(notes[i])]_vars

C9_RetriedTwice ==
    /\ req.op = "retry"
    /\ req.pc = "return"
    /\ Len(tasks) >= 3
    /\ \A k \in 0..2 : tasks[Len(tasks) - k].note_id = req.id
    /\ tasks[Len(tasks)] = tasks[Len(tasks) - 1]
    /\ tasks[Len(tasks)] =
          NewChain(req.id, TranscribeStages,
                   [NoPayload EXCEPT !.audio_id = notes[req.id].audio_id,
                                     !.audio_path = notes[req.id].audio_path])

\* the outputs a cache hit copies
Outputs(n) == <<n.note, n.transcription, n.audio_path, n.audio_id>>

\* the row created last among the rows of S (ids are given in creation order)
LastCreated(S) == CHOOSE m \in S : \A j \in S : j <= m

CreatedRow == notes'[Len(notes')]

\* C10: when rows of the submitted URL are completed with a note, the row the
\* handler picks has the note, transcription, audio_path and audio_id of the
\* one created last among them; the new row ends the request completed, with
\* those outputs; and the request enqueues no task and calls no provider.
C10_CacheHitClones ==
    [][/\ (req = Idle /\ Len(notes') = Len(notes) + 1
              /\ CacheCandidates(CreatedRow.youtube_url) # {}) =>
              /\ req'.existing \in CacheCandidates(CreatedRow.youtube_url)
              /\ Outputs(notes[req'.existing]) =
                    Outputs(notes[LastCreated(CacheCandidates(CreatedRow.youtube_url))])
              /\ tasks' = tasks
       /\ (req.op = "create" /\ req.pc = "created" /\ req'.pc = "return"
              /\ req.existing # 0) =>
              /\ notes'[req.id].status = "completed"
              /\ Outputs(notes'[req.id]) = Outputs(notes[req.existing])
              /\ notes'[req.id].note # NoNote
              /\ req'.result = "completed"
              /\ tasks' = tasks]_vars

\* ------------------------------------------------------------------
\* the step is a call of the stage's provider by the task of chain c
CallsTranscriber(c) == TranscribeSucceeds(c) \/ TranscribeRaises(c)
CallsGenerator(c) == GenerateSucceeds(c) \/ GenerateRaises(c)
CallsDownloader(c) == DownloadSucceeds(c) \/ DownloadRaises(c)

\* the stages still to run are a tail of Acquire, Transcribe, Synthesize
InPipelineOrder(stages) ==
    \E k \in 0..Len(FullStages) : stages = SubSeq(FullStages, k + 1, Len(FullStages))

\* C11: the tasks of a chain run in the order download_audio,
\* translate_audio_to_text, generate_study_notes; the transcription provider
\* is called only while the row has an audio_path, and the generation
\* provider only while the row has a transcription.
C11_StagesInOrder ==
    [][\A c \in ChainIds :
          /\ InPipelineOrder(tasks[c].stages)
          /\ \/ tasks'[c].stages \in {tasks[c].stages, <<>>}
             \/ tasks[c].stages # <<>> /\ tasks'[c].stages = Tail(tasks[c].stages)
          /\ CallsTranscriber(c) => Row(c).audio_path # NoId
          /\ CallsGenerator(c) => Row(c).transcription # NULL]_vars

\* the status changes of the job life cycle
StatusTransitions ==
    {<<"pending", "processing">>, <<"processing", "completed">>,
     <<"processing", "failed">>, <<"failed", "processing">>}

\* C12: every change of a row's status is pending -> processing,
\* processing -> completed, processing -> failed or failed -> processing.
C12_StatusTransitions ==
    [][\A i \in NoteIds :
          notes'[i].status # notes[i].status =>
              <<notes[i].status, notes'[i].status>> \in StatusTransitions]_vars

\* C13: a retry request on a failed row leaves it with error null and status
\* processing when it returns, whichever stage the resumed run enters at, so
\* before any task of that run executes.
C13_RetryReentersProcessing ==
    [][\A i \in NoteIds :
          (RetryOn(i) /\ notes[i].status = "failed") =>
              /\ EnqueuedOne
              /\ notes'[i].error = NoError
              /\ notes'[i].status = "processing"]_vars

\* a chain was enqueued for row i, every task enqueued for it has finished,
\* and no request is being handled
Settled(i) ==
    /\ \E c \in ChainIds : tasks[c].note_id = i
    /\ ActiveTasks(i) = {}
    /\ req = Idle

\* C14: once the tasks enqueued for a row have all finished, the row is
\* completed or failed: it does not stay pending or processing.
C14_FinishedIsResolved ==
    \A i \in NoteIds : Settled(i) => notes[i].status \in {"completed", "failed"}

\* the step is taken by the task of chain c
StepOf(c) == tasks'[c] # tasks[c]

\* the output of the stage chain c is at is already on its row
OutputPersisted(c) ==
    /\ Active(c)
    /\ Found(c)
    /\ \/ Stage(c) = "download_audio" /\ Row(c).audio_path # NoId
       \/ Stage(c) = "translate_audio_to_text" /\ Row(c).transcription # NULL
       \/ Stage(c) = "generate_study_notes" /\ Row(c).note # NoNote

\* C15: a stage task delivered for a row that already has that stage's output
\* calls no provider and changes no field of any row.
C15_DuplicateIsNoOp ==
    [][\A c \in ChainIds :
          (OutputPersisted(c) /\ StepOf(c)) =>
              /\ notes' = notes
              /\ ~CallsDownloader(c)
              /\ ~CallsTranscriber(c)
              /\ ~CallsGenerator(c)]_vars

\* C16: a translate_audio_to_text task that runs on a row without an audio
\* file calls no provider and is not retried: it marks the row failed and
\* hands no transcription on; the generate_study_notes task that follows
\* calls no provider either and ends the chain with the row failed; and a
\* retry request on the row it leaves enters at download_audio.
C16_MissingAudioFails ==
    [][\A c \in ChainIds :
          /\ (Active(c) /\ StepOf(c) /\ Stage(c) = "translate_audio_to_text"
                /\ ~audio_exists(Row(c))) =>
                /\ ~CallsTranscriber(c)
                /\ tasks'[c].retries = 0
                /\ tasks'[c].stages = Tail(tasks[c].stages)
                /\ NoTranscription(tasks'[c].payload)
                /\ Row(c)'.status = "failed"
          /\ (Active(c) /\ StepOf(c) /\ Stage(c) = "generate_study_notes"
                /\ NoTranscription(tasks[c].payload)) =>
                /\ ~CallsGenerator(c)
                /\ ~Active(c)'
                /\ Row(c)'.status = "failed"
                /\ ~audio_exists(Row(c))' => EntryStage(Row(c))' = "download_audio"]_vars

\* ------------------------------------------------------------------
\* the text functions, each applied to every input of its bounded domain
Calls == RewriteCalls \cup ParseCalls \cup SynthesisCalls

FunInit ==
    /\ notes = <<>>
    /\ now = 0
    /\ files = {}
    /\ tasks = <<>>
    /\ req = Idle
    /\ events = 0
    /\ call \in Calls

FunNext ==
    \/ Rewrite
    \/ ParseTranscript
    \/ StartSynthesis

FunSpec == FunInit /\ [][FunNext]_vars

\* the rewrite of marker text on source url has returned
Rewritten(text, url) ==
    /\ call.fn = "add_youtube_timestamps"
    /\ call.done
    /\ MarkerText(call.arg[1]) = text
    /\ call.arg[2] = url

\* C17, as claimed: [12:34] on https://x/y becomes [12:34](https://x/y?t=754)
\* and [1:02:03] becomes [1:2:03](https://x/y?t=3723).
C17_RewriteAsClaimed ==
    /\ Rewritten("[12:34]", "https://x/y") => call.out = "[12:34](https://x/y?t=754)"
    /\ Rewritten("[1:02:03]", "https://x/y") => call.out = "[1:2:03](https://x/y?t=3723)"

\* C17, amended: [12:34] on https://x/y becomes [12:34](https://x/y?t=754) and
\* [1:02:03] becomes [1:02:03](https://x/y?t=3723), the minutes kept at two
\* digits; the seconds value is H*3600 + M*60 + S.
C17_Rewrite ==
    /\ Rewritten("[12:34]", "https://x/y") => call.out = "[12:34](https://x/y?t=754)"
    /\ Rewritten("[1:02:03]", "https://x/y") => call.out = "[1:02:03](https://x/y?t=3723)"
    /\ Rewritten("[2:10:04]", "https://x/y") => call.out = "[2:10:04](https://x/y?t=7804)"

C17_Rewrote ==
    /\ Rewritten("[1:02:03]", "https://x/y")
    /\ call.out = "[1:02:03](https://x/y?t=3723)"

\* C19: the parser recovers, from the lines written for a sequence of
\* segments, as many segments in the same order, each with the start, the end
\* and the text of the segment written.
C19_TranscriptRoundTrip ==
    (call.fn = "parse" /\ call.done) =>
        /\ Len(call.out) = Len(call.arg)
        /\ \A k \in 1..Len(call.arg) :
              k <= Len(call.out) =>
                  /\ call.out[k].start * 10 = call.arg[k].start
                  /\ call.out[k].end * 10 = call.arg[k].end
                  /\ call.out[k].text = call.arg[k].text

\* C18: a row has an error only while its status is failed.
C18_ErrorOnlyWhenFailed ==
    \A i \in NoteIds : notes[i].error # NoError => notes[i].status = "failed"

\* C20: an empty or blocked generation response on the first or the second
\* attempt is retried and writes nothing to any row; and when a later attempt
\* of the task gets text, the row becomes completed with a note.
C20_EmptyResponseRetried ==
    [][\A c \in ChainIds :
          /\ (GenerateRaises(c) /\ tasks[c].retries < max_retries) =>
                /\ notes' = notes
                /\ Active(c)'
                /\ Stage(c)' = "generate_study_notes"
                /\ tasks'[c].retries = tasks[c].retries + 1
          /\ (GenerateSucceeds(c) /\ tasks[c].retries > 0) =>
                /\ Row(c)'.status = "completed"
                /\ Row(c)'.note # NoNote
                /\ Row(c)'.error = Row(c).error]_vars

C20_CompletedAfterRetry ==
    \E c \in ChainIds :
        /\ tasks[c].outcome = "done"
        /\ tasks[c].retries = max_retries
        /\ notes[tasks[c].note_id].status = "completed"
        /\ notes[tasks[c].note_id].note # NoNote
        /\ notes[tasks[c].note_id].error = NoError

\* ------------------------------------------------------------------
\* the step is the cache clone into row i
ClonedInto(i) == req.op = "create" /\ req.pc = "created" /\ req.id = i /\ CacheHit

\* the step is a failed attempt, or a skipped run, of a task of chain c
FailedAttempt(c) ==
    \/ DownloadRaises(c)
    \/ TranscribeRaises(c)
    \/ GenerateRaises(c)
    \/ TranscribeSkips(c)
    \/ GenerateSkips(c)

\* what may write transcription and note, and what a failed attempt leaves
OutputsWrittenByOwnStage(i) ==
    /\ notes'[i].transcription # notes[i].transcription =>
          \/ ClonedInto(i)
          \/ \E c \in ChainIds : tasks[c].note_id = i /\ TranscribeSucceeds(c)
    /\ notes'[i].note # notes[i].note =>
          \/ ClonedInto(i)
          \/ \E c \in ChainIds : tasks[c].note_id = i /\ GenerateSucceeds(c)
    /\ \A c \in ChainIds : FailedAttempt(c) => Outputs(notes'[i]) = Outputs(notes[i])

AudioChanged(i) ==
    <<notes'[i].audio_id, notes'[i].audio_path>> # <<notes[i].audio_id, notes[i].audio_path>>

\* C21, as claimed: audio_id and audio_path change only when a download
\* attempt succeeds (or at the cache clone), transcription only when a
\* transcription attempt succeeds, note only when a generation attempt
\* succeeds; a failed attempt changes none of them.
C21_OutputsOnlyByOwnStage ==
    [][\A i \in NoteIds :
          /\ OutputsWrittenByOwnStage(i)
          /\ AudioChanged(i) =>
                \/ ClonedInto(i)
                \/ \E c \in ChainIds : tasks[c].note_id = i /\ DownloadSucceeds(c)]_vars

\* C21, amended: as above, except that a retry request that enters at
\* download_audio also changes audio_id and audio_path, to null.
C21_OutputsByOwnStageOrReset ==
    [][\A i \in NoteIds :
          /\ OutputsWrittenByOwnStage(i)
          /\ AudioChanged(i) =>
                \/ ClonedInto(i)
                \/ \E c \in ChainIds : tasks[c].note_id = i /\ DownloadSucceeds(c)
                \/ /\ RetryOn(i)
                   /\ EntryStage(notes[i]) = "download_audio"
                   /\ notes'[i].audio_id = NoId
                   /\ notes'[i].audio_path = NoId]_vars

\* a transcription task failed for good and the row kept its audio
C21_FailedKeptOutputs ==
    \E i \in NoteIds :
        /\ notes[i].status = "failed"
        /\ notes[i].error.kind = "Transcription"
        /\ notes[i].audio_path # NoId
        /\ notes[i].audio_id # NoId
        /\ notes[i].transcription = NULL

\* ------------------------------------------------------------------
\* tasks and requests that name a row the table does not have: the broker
\* holds chains of every kind for ids past the last row
OrphanTables == {<<>>, <<NewNote("u1", 1)>>}

OrphanChains(table) ==
    {NewChain(id, FullStages, NoPayload) : id \in {Len(table) + 1, Len(table) + 2}}
    \cup {NewChain(id, TranscribeStages,
                   [NoPayload EXCEPT !.audio_id = 1, !.audio_path = AudioPath(1)]) :
             id \in {Len(table) + 1, Len(table) + 2}}
    \cup {NewChain(id, SynthesizeStages, [NoPayload EXCEPT !.transcription = "t1"]) :
             id \in {Len(table) + 1, Len(table) + 2}}

OrphanInit ==
    /\ notes \in OrphanTables
    /\ now = Len(notes)
    /\ files = {AudioPath(1)}
    /\ \E c1 \in OrphanChains(notes), c2 \in OrphanChains(notes) :
          tasks \in {<<c1>>, <<c1, c2>>}
    /\ req = Idle
    /\ events = 0
    /\ call = NoCall

OrphanNext ==
    \/ \E c \in ChainIds : DownloadStart(c)
    \/ \E c \in ChainIds : TranscribeSkips(c)
    \/ \E c \in ChainIds : GenerateSkips(c)
    \/ \E id \in RequestIds : RetryNotFound(id)
    \/ \E id \in RequestIds : RegenerateNotFound(id)
    \/ Return

OrphanSpec == OrphanInit /\ [][OrphanNext]_vars

\* C22: a task run for an unknown row calls no provider, writes no row and is
\* not retried: it returns and the chain moves on; a retry or regenerate-note
\* request for an unknown row answers 404, enqueues nothing and changes no row.
C22_UnknownIdIsInert ==
    [][/\ \A c \in ChainIds :
             (Active(c) /\ ~Found(c) /\ StepOf(c)) =>
                 /\ notes' = notes
                 /\ files' = files
                 /\ ~CallsDownloader(c) /\ ~CallsTranscriber(c) /\ ~CallsGenerator(c)
                 /\ tasks'[c].retries = 0
                 /\ tasks'[c].stages = Tail(tasks[c].stages)
                 /\ tasks'[c].outcome # "failed"
       /\ (req = Idle /\ req'.op \in {"retry", "regenerate"} /\ req'.id \notin NoteIds) =>
                 /\ req'.result = "404"
                 /\ notes' = notes
                 /\ tasks' = tasks]_vars

\* every task of a full chain for an unknown row has returned, and a retry
\* request for an unknown row was answered
C22_OrphansReturned ==
    /\ \E c \in ChainIds :
          /\ tasks[c].note_id \notin NoteIds
          /\ tasks[c].outcome = "done"
    /\ \A c \in ChainIds : tasks[c].outcome = "done"
    /\ req.op = "retry"
    /\ req.result = "404"
    /\ notes \in OrphanTables

\* C23: a retry request on a row that is not completed and whose audio_path
\* is null or whose audio file is missing sets audio_path and audio_id to null
\* and enqueues the full chain for that row, once, and nothing else.
C23_ResumeAtAcquire ==
    [][\A i \in NoteIds :
          (RetryOn(i) /\ notes[i].status # "completed" /\ ~audio_exists(notes[i])) =>
              /\ EnqueuedOne
              /\ tasks'[Len(tasks')] = create_audio_transcription_chain(i)
              /\ tasks'[Len(tasks')].stages = FullStages
              /\ notes'[i].audio_path = NoId
              /\ notes'[i].audio_id = NoId]_vars

\* a retry restarted, from the download, a row that already had a transcription
C23_ResumedAtAcquire ==
    /\ req.op = "retry"
    /\ req.pc = "return"
    /\ req.result = "pending"
    /\ tasks[Len(tasks)] = create_audio_transcription_chain(req.id)
    /\ notes[req.id].transcription # NULL
    /\ notes[req.id].audio_path = NoId
    /\ notes[req.id].audio_id = NoId
    /\ notes[req.id].task_id = Len(tasks)

\* the rows a submission of url can be answered from
CompletedWithNote(url) ==
    {i \in NoteIds : /\ notes[i].youtube_url = url
                     /\ notes[i].status = "completed"
                     /\ notes[i].note # NoNote}

\* this step is create_notes_from_youtube committing its new row
Submits == req = Idle /\ req'.op = "create"

\* this step is create_notes_from_youtube ending a request that found no row
\* to answer from
EndsCacheMiss == req.op = "create" /\ req.pc = "created" /\ req.existing = 0 /\ req' # req

\* C24: a submission of a URL of which no row is completed with a note adds
\* exactly one row, pending and with task_id, audio_id, audio_path, error,
\* transcription and note all null, and leaves the other rows and the queue as
\* they were; no task of the new row exists before the request ends; and the
\* request ends by enqueueing exactly one full chain for the new row, which is
\* still pending with its outputs null, and answers pending.
C24_CacheMissCreatesAndEnqueues ==
    [][/\ (Submits /\ CompletedWithNote(CreatedRow.youtube_url) = {}) =>
             /\ Len(notes') = Len(notes) + 1
             /\ \A i \in NoteIds : notes'[i] = notes[i]
             /\ CreatedRow = NewNote(CreatedRow.youtube_url, CreatedRow.created_at)
             /\ req'.id = Len(notes')
             /\ req'.existing = 0
             /\ tasks' = tasks
             /\ \A c \in ChainIds : tasks[c].note_id # req'.id
       /\ EndsCacheMiss =>
             /\ \A c \in ChainIds : tasks[c].note_id # req.id
             /\ EnqueuedOne
             /\ tasks'[Len(tasks')] = create_audio_transcription_chain(req.id)
             /\ tasks'[Len(tasks')].stages = FullStages
             /\ Len(notes') = Len(notes)
             /\ notes'[req.id] = [NewNote(notes[req.id].youtube_url, notes[req.id].created_at)
                                     EXCEPT !.task_id = Len(tasks')]
             /\ \A i \in NoteIds \ {req.id} : notes'[i] = notes[i]
             /\ req'.result = "pending"]_vars

\* a submission was a cache miss although a row of another URL was completed
\* with a note
C24_MissBesideOtherRows ==
    /\ req.op = "create"
    /\ req.pc = "return"
    /\ req.result = "pending"
    /\ tasks[Len(tasks)] = create_audio_transcription_chain(req.id)
    /\ notes[req.id].status = "pending"
    /\ Outputs(notes[req.id]) = <<NoNote, NULL, NoId, NoId>>
    /\ \E i \in NoteIds : /\ i # req.id
                          /\ notes[i].youtube_url # notes[req.id].youtube_url
                          /\ notes[i].status = "completed"
                          /\ notes[i].note # NoNote

\* the number a field of one or two digits is read as
FieldValue(ds) == IF Len(ds) = 1 THEN ds[1] ELSE 10 * ds[1] + ds[2]

\* C25: the rewrite of a marker [a:b], a of one or two digits and b of two,
\* on a source gives a link to the source followed by ?t= and a*60 + b; of a
\* marker [a:b:c], c of two digits, a link to the source followed by ?t= and
\* a*3600 + b*60 + c; the link text is the marker's, its first field with or
\* without a leading zero; and text that is not such a marker comes back
\* unchanged.
C25_RewriteSeconds ==
    (call.fn = "add_youtube_timestamps" /\ call.done /\ call.arg[2] # "") =>
        LET m == call.arg[1]
            source_reference == call.arg[2]
            a == FieldValue(m.g1)
            b == FieldValue(m.g2)
            t == IF m.g3 = <<>> THEN a * 60 + b
                 ELSE a * 3600 + b * 60 + FieldValue(m.g3)
            rest == ":" \o DigitsText(m.g2)
                        \o (IF m.g3 = <<>> THEN "" ELSE ":" \o DigitsText(m.g3))
        IN IF Len(m.g1) \in 1..2 /\ Len(m.g2) = 2 /\ Len(m.g3) \in {0, 2}
           THEN \E first \in {DigitsText(m.g1), ToString(a)} :
                   call.out = "[" \o first \o rest \o "]("
                                  \o source_reference \o "?t=" \o ToString(t) \o ")"
           ELSE call.out = MarkerText(m)

\* [24:03:41] was rewritten to a link with t = 24*3600 + 3*60 + 41
C25_RewroteHours ==
    Rewritten("[24:03:41]", "https://x/y") /\ call.out = "[24:03:41](https://x/y?t=86621)"

\* the step is an attempt of the task of chain c whose provider call raised
AttemptRaises(c) ==
    \/ DownloadRaises(c)
    \/ TranscribeRaises(c)
    \/ GenerateRaises(c)

\* C26: an attempt that fails while the task has retries left (the first and
\* the second of three) writes nothing, and the row is then in status
\* processing with the error it had; the third failed attempt writes failed
\* and an error.
C26_FailedOnlyOnLastAttempt ==
    [][\A c \in ChainIds :
          AttemptRaises(c) =>
              IF tasks[c].retries < max_retries
              THEN /\ notes' = notes
                   /\ Row(c)'.status = "processing"
              ELSE /\ Row(c)'.status = "failed"
                   /\ Row(c)'.error # NoError]_vars

\* C27: no step changes the status or the note of a row that is completed.
C27_CompletedIsStable ==
    [][\A i \in NoteIds :
          notes[i].status = "completed" =>
              /\ notes'[i].status = "completed"
              /\ notes'[i].note = notes[i].note]_vars

\* a row whose submission was followed by a retry before its chain had
\* started: two chains of the row are queued (create_notes_from_youtube lines
\* 74-79, then retry_note lines 199-213); the events left are the three
\* attempts of a task
OverlapInit ==
    /\ notes = <<[NewNote("u1", 1) EXCEPT !.task_id = 2]>>
    /\ now = 1
    /\ files = {}
    /\ tasks = <<create_audio_transcription_chain(1), create_audio_transcription_chain(1)>>
    /\ req = Idle
    /\ events = MaxEvents - (max_retries + 1)
    /\ call = NoCall

\* the workers, the loss of a file, and the retry request
OverlapNext ==
    \/ \E c \in ChainIds : DownloadStart(c)
    \/ \E c \in ChainIds : DownloadSucceeds(c)
    \/ \E c \in ChainIds : DownloadRaises(c)
    \/ \E c \in ChainIds : TranscribeSkips(c)
    \/ \E c \in ChainIds : TranscribeSucceeds(c)
    \/ \E c \in ChainIds : TranscribeRaises(c)
    \/ \E c \in ChainIds : GenerateSkips(c)
    \/ \E c \in ChainIds : GenerateSucceeds(c)
    \/ \E c \in ChainIds : GenerateRaises(c)
    \/ \E path \in files : LoseFile(path)
    \/ \E id \in RequestIds : retry_note(id)
    \/ Return

OverlapSpec == OverlapInit /\ [][OverlapNext]_vars

\* the state OverlapSpec starts in, as Spec reaches it
OverlapReached ==
    /\ notes = <<[NewNote("u1", 1) EXCEPT !.task_id = 2]>>
    /\ files = {}
    /\ tasks = <<create_audio_transcription_chain(1), create_audio_transcription_chain(1)>>

\* the step belongs to a retry, regenerate-note or regenerate-all request that
\* writes row i
RequestOn(i) ==
    \/ RetryOn(i)
    \/ req = Idle /\ req'.op = "regenerate" /\ req'.id = i
    \/ req.op = "regenerate" /\ req.id = i
    \/ req.op = "regenerate_all" /\ req.todo # <<>> /\ Head(req.todo) = i

\* C28: a chain whose task has failed on its third attempt takes no further
\* step (no later stage of it runs or calls a provider), and the row keeps
\* status failed and the error of that attempt until a retry, regenerate-note
\* or regenerate-all request writes it.
C28_ExhaustionIsTerminal ==
    [][/\ \A c \in ChainIds : tasks[c].outcome = "failed" => tasks'[c] = tasks[c]
       /\ \A i \in NoteIds :
             (notes[i].status = "failed" /\ notes[i].error.attempts = max_retries + 1) =>
                 \/ RequestOn(i)
                 \/ /\ notes'[i].status = "failed"
                    /\ notes'[i].error = notes[i].error]_vars

\* a line of the timestamp grammar: a stamp, then text
OfGrammar(line) == line.stamped /\ Len(line.rest) > 0

\* C29: generate_study_notes drops the lines of a transcription that are not
\* of the timestamp grammar and keeps the others as segments in their order;
\* and every transcription that is not empty, one without any such line
\* included, gets to the provider call, not to failed.
C29_UnparseableLinesDropped ==
    (call.fn = "generate_study_notes" /\ call.done) =>
        LET lines == call.arg
            kept == {p \in 1..Len(lines) : OfGrammar(lines[p])}
            rank(p) == Cardinality({q \in kept : q <= p})
        IN /\ lines # <<EmptyLine>> =>
                 /\ call.out.outcome = "provider called"
                 /\ Len(call.out.segments) = Cardinality(kept)
                 /\ \A p \in kept :
                       /\ call.out.segments[rank(p)].start = lines[p].start
                       /\ call.out.segments[rank(p)].end = lines[p].end
           /\ lines = <<EmptyLine>> => call.out.outcome = "failed"

\* a transcription of plain text, none of its lines a segment, got to the
\* provider call with no segments
C29_PlainTextReachedProvider ==
    /\ call.fn = "generate_study_notes"
    /\ call.done
    /\ Len(call.arg) = 2
    /\ \A p \in 1..Len(call.arg) : ~call.arg[p].stamped /\ call.arg[p].rest # <<>>
    /\ call.out = [outcome |-> "provider called", segments |-> <<>>]

\* the rows, other than row i, are as they were
OthersUnchanged(i) ==
    /\ Len(notes') = Len(notes)
    /\ \A j \in NoteIds \ {i} : notes'[j] = notes[j]

\* the elements of a sequence
Range(seq) == {seq[k] : k \in 1..Len(seq)}

\* C30: regenerate-all selects exactly the rows with a transcription and no
\* note, each once; for each of them in turn it writes error = null, enqueues
\* one generate_study_notes task for that row and writes status processing,
\* changing no other row and no other task; and it returns the number of rows
\* it selected.
C30_RegenerateAll ==
    [][/\ (req = Idle /\ req'.op = "regenerate_all") =>
             /\ Range(req'.todo) =
                   {i \in NoteIds : notes[i].transcription # NULL /\ notes[i].note = NoNote}
             /\ Len(req'.todo) = Cardinality(Range(req'.todo))
             /\ req'.count = 0
             /\ notes' = notes
             /\ tasks' = tasks
       /\ (req.op = "regenerate_all" /\ req.pc # "return" /\ req' # req) =>
             /\ req'.count + Len(req'.todo) = req.count + Len(req.todo)
             /\ req.todo = <<>> =>
                   /\ req'.pc = "return"
                   /\ req'.count = req.count
                   /\ notes' = notes
                   /\ tasks' = tasks
             /\ req.todo # <<>> =>
                   LET i == Head(req.todo) IN
                   /\ OthersUnchanged(i)
                   /\ req.pc = "mark" =>
                         /\ notes'[i].error = NoError
                         /\ tasks' = tasks
                         /\ req'.pc = "enqueue"
                   /\ req.pc = "enqueue" =>
                         /\ EnqueuedOne
                         /\ tasks'[Len(tasks')].note_id = i
                         /\ tasks'[Len(tasks')].stages = <<"generate_study_notes">>
                         /\ tasks'[Len(tasks')].outcome = "active"
                         /\ notes' = notes
                         /\ req'.pc = "commit"
                   /\ req.pc = "commit" =>
                         /\ notes'[i].status = "processing"
                         /\ notes'[i].error = notes[i].error
                         /\ tasks' = tasks
                         /\ req'.todo = Tail(req.todo)
                         /\ req'.pc = "mark"]_vars

\* regenerate-all returned 2 beside a row it had not selected
C30_RegeneratedTwo ==
    /\ req.op = "regenerate_all"
    /\ req.pc = "return"
    /\ req.count = 2
    /\ Len(notes) = 3
    /\ \E i \in NoteIds : notes[i].transcription = NULL /\ notes[i].status = "pending"

====
